---- MODULE Spec2Model ----
(***************************************************************************)
(* opbeans-python, opbeans/views.py: the maybe_dt decorator (random        *)
(* forwarding of GET requests to another opbeans service) and the          *)
(* rum_agent_config view with its module-level RUM_CONFIG dictionary.      *)
(*                                                                         *)
(* Text that the code splits, searches or concatenates (service names,     *)
(* paths, URLs, the probability setting) is a sequence of one-character    *)
(* strings.  Floating-point values are integers in units of 1/Scale.       *)
(***************************************************************************)
EXTENDS Integers, Sequences, FiniteSets, TLC

\* ---------------------------------------------------------------- bounds
MaxRequests == 2      \* requests being handled at the same time (maybe_dt views)
MaxTokens == 3        \* comma-separated pieces in an enumerated OPBEANS_SERVICES value
MaxProbLen == 3       \* characters in an enumerated OPBEANS_DT_PROBABILITY value
MaxRumRequests == 3   \* rum_agent_config requests being handled at the same time

\* ---------------------------------------------------------------- text
RECURSIVE Pow10(_)
Pow10(n) == IF n = 0 THEN 1 ELSE 10 * Pow10(n - 1)

\* one unit of a floating-point value is 1/Scale; every enumerated setting has
\* fewer than MaxProbLen fractional digits, so its value is exact
Scale == Pow10(MaxProbLen)

LOCAL_MARKER == <<"o","p","b","e","a","n","s","-","p","y","t","h","o","n">>
HTTP_PREFIX == <<"h","t","t","p",":","/","/">>
PORT_SUFFIX == <<":","3","0","0","0">>

\* sub in s
Contains(sub, s) ==
    \E i \in 1..(Len(s) - Len(sub) + 1) : SubSeq(s, i, i + Len(sub) - 1) = sub

\* s.startswith(pre)
StartsWith(s, pre) ==
    /\ Len(pre) <= Len(s)
    /\ SubSeq(s, 1, Len(pre)) = pre

\* s.split(",")
RECURSIVE Split(_)
Split(s) ==
    LET commas == {i \in 1..Len(s) : s[i] = ","}
    IN  IF commas = {}
        THEN <<s>>
        ELSE LET i == CHOOSE j \in commas : \A k \in commas : j <= k
             IN  <<SubSeq(s, 1, i - 1)>> \o Split(SubSeq(s, i + 1, Len(s)))

\* ", ".join / ",".join, used to enumerate and to re-read settings
RECURSIVE Join(_)
Join(pieces) ==
    IF Len(pieces) = 0 THEN <<>>
    ELSE IF Len(pieces) = 1 THEN pieces[1]
    ELSE pieces[1] \o <<",">> \o Join(Tail(pieces))

Digits == {"0","1","2","3","4","5","6","7","8","9"}

DigitVal(c) ==
    CASE c = "0" -> 0 [] c = "1" -> 1 [] c = "2" -> 2 [] c = "3" -> 3 [] c = "4" -> 4
      [] c = "5" -> 5 [] c = "6" -> 6 [] c = "7" -> 7 [] c = "8" -> 8 [] c = "9" -> 9

RECURSIVE DigitsValue(_)
DigitsValue(ds) ==
    IF ds = <<>> THEN 0
    ELSE 10 * DigitsValue(SubSeq(ds, 1, Len(ds) - 1)) + DigitVal(ds[Len(ds)])

\* float(s) for a string s over sign, digits, "." and letters: a left-to-right
\* scan [sign] digits ["." digits]; anything else is a ValueError
RECURSIVE ScanDigits(_, _)
ScanDigits(s, i) ==
    IF i <= Len(s) /\ s[i] \in Digits THEN ScanDigits(s, i + 1) ELSE i

float(s) ==
    LET start == IF Len(s) > 0 /\ s[1] = "-" THEN 2 ELSE 1
        sign == IF start = 2 THEN -1 ELSE 1
        intEnd == ScanDigits(s, start)
        hasDot == intEnd <= Len(s) /\ s[intEnd] = "."
        fracStart == IF hasDot THEN intEnd + 1 ELSE intEnd
        fracEnd == ScanDigits(s, fracStart)
        intPart == SubSeq(s, start, intEnd - 1)
        fracPart == SubSeq(s, fracStart, fracEnd - 1)
        ok == /\ fracEnd = Len(s) + 1
              /\ Len(intPart) + Len(fracPart) > 0
    IN  IF ok
        THEN [ok |-> TRUE,
              value |-> sign * (DigitsValue(intPart) * Scale
                                + DigitsValue(fracPart) * Pow10(MaxProbLen - Len(fracPart)))]
        ELSE [ok |-> FALSE, value |-> 0]

\* ---------------------------------------------------------------- environment
\* an environment variable: unset, or set to a string
Unset == [set |-> FALSE, val |-> <<>>]
SetTo(s) == [set |-> TRUE, val |-> s]

\* os.environ.get(name, default)
EnvGet(env, default) == IF env.set THEN env.val ELSE default

DEFAULT_PROBABILITY == Scale \div 2

\* ---------------------------------------------------------------- maybe_dt, set-up
\* variant: the filter compares for equality instead of searching
IsOtherService_exact(s) == s # LOCAL_MARKER

\* the filter of the list comprehension
IsOtherService(s) == ~ Contains(LOCAL_MARKER, s)

ResolveServices(env) ==
    SelectSeq(Split(EnvGet(env, <<>>)), IsOtherService)

\* variant: the except clause substitutes 0.0
ResolveProbability_zero(env) ==
    IF ~ env.set
    THEN DEFAULT_PROBABILITY
    ELSE LET parsed == float(env.val)
         IN  IF parsed.ok THEN parsed.value ELSE 0

ResolveProbability(env) ==
    IF ~ env.set
    THEN DEFAULT_PROBABILITY
    ELSE LET parsed == float(env.val)
         IN  IF parsed.ok THEN parsed.value ELSE DEFAULT_PROBABILITY


\* ---------------------------------------------------------------- inputs
S_a == <<"a">>
S_b == <<"b">>
S_svc1 == <<"s","v","c","1">>
S_local == LOCAL_MARKER \o <<"-","l","o","c","a","l">>
S_http_svc1 == HTTP_PREFIX \o S_svc1

\* the pieces enumerated OPBEANS_SERVICES values are joined from
Tokens == {<<>>, S_a, S_b, S_svc1, LOCAL_MARKER, S_local, S_http_svc1}

TokenLists == UNION {[1..n -> Tokens] : n \in 1..MaxTokens}

ServicesInputs == {Unset} \cup {SetTo(Join(l)) : l \in TokenLists}

ProbAlphabet == {"0", "1", "5", ".", "-", "x"}

ProbInputs ==
    {Unset} \cup {SetTo(s) : s \in UNION {[1..n -> ProbAlphabet] : n \in 0..MaxProbLen}}

\* the settings of the deployments the interceptor is exercised under
ServicesConfigs ==
    {Unset, SetTo(Join(<<S_a, S_b, S_local>>)), SetTo(LOCAL_MARKER),
     SetTo(Join(<<S_svc1, S_http_svc1>>))}

ProbConfigs ==
    {Unset, SetTo(<<"0",".","0">>), SetTo(<<"1",".","0">>), SetTo(<<"x">>)}

P_products == <<"/","a","p","i","/","p","r","o","d","u","c","t","s">>
P_stats == <<"/","a","p","i","/","s","t","a","t","s">>
Q_x1 == <<"x","=","1">>

\* inbound requests: method, path and query string
Requests ==
    {[method |-> "GET", path |-> P_products, query |-> Q_x1],
     [method |-> "GET", path |-> P_stats, query |-> <<>>],
     [method |-> "POST", path |-> P_stats, query |-> <<>>]}

\* values of random.random(), in [0, 1)
Draws == {0, Scale \div 2, Scale - 1}

NoHeaders == [h \in {} |-> ""]
ContentType(v) == [h \in {"content-type"} |-> v]

NoResponse == [status |-> 0, content |-> "", content_type |-> ""]

\* what the decorated view may return
LocalResponses ==
    {[status |-> 200, content |-> "local", content_type |-> "application/json"],
     [status |-> 404, content |-> "missing", content_type |-> "text/html"]}

\* what the other service may answer
PeerResponses ==
    {[status_code |-> 200, content |-> "{}", headers |-> ContentType("application/json")],
     [status_code |-> 200, content |-> "ok", headers |-> NoHeaders],
     [status_code |-> 404, content |-> "", headers |-> ContentType("text/html")],
     [status_code |-> 503, content |-> "down", headers |-> NoHeaders]}

NoPeerResponse == [status_code |-> 0, content |-> "", headers |-> NoHeaders]

\* what requests.get may raise
Failures == {"Timeout", "ConnectionError"}

NoRequest == [method |-> "", path |-> <<>>, query |-> <<>>]

\* ---------------------------------------------------------------- state
VARIABLES
    env_services,      \* os.environ["OPBEANS_SERVICES"]
    env_probability,   \* os.environ["OPBEANS_DT_PROBABILITY"]
    wrapped,           \* maybe_dt has decorated the views
    other_services,    \* closure variable of wrapped_view
    probability,       \* closure variable of wrapped_view
    req,               \* per worker: the request it is handling inside wrapped_view
    RUM_CONFIG,        \* the module-level dictionary
    rum                \* per worker: its position inside rum_agent_config

vars == <<env_services, env_probability, wrapped, other_services, probability,
          req, RUM_CONFIG, rum>>

dtVars == <<env_services, env_probability, wrapped, other_services, probability, req>>
rumVars == <<RUM_CONFIG, rum>>

Workers == 1..MaxRequests

\* a worker that is not inside wrapped_view
Idle ==
    [pc |-> "idle", request |-> NoRequest, r |-> 0,
     other_service |-> <<>>, url |-> <<>>,
     viewCalls |-> 0, viewArg |-> NoRequest, viewResult |-> NoResponse,
     getCalls |-> 0, get_exc |-> "", other_response |-> NoPeerResponse,
     outcome |-> "none", response |-> NoResponse, exc |-> ""]

\* ---------------------------------------------------------------- wrapped_view
\* request.get_full_path()
get_full_path(request) ==
    request.path \o (IF request.query # <<>> THEN <<"?">> \o request.query ELSE <<>>)

\* variant: the method is not looked at
ShouldForward_any_method(method, services, r, p) ==
    /\ services # <<>>
    /\ r < p

\* variant: r <= probability
ShouldForward_inclusive(method, services, r, p) ==
    /\ method = "GET"
    /\ services # <<>>
    /\ r <= p

\* the condition of the if statement
ShouldForward(method, services, r, p) ==
    /\ method = "GET"
    /\ services # <<>>
    /\ r < p

\* variant: scheme and port are added to every service
TargetUrl_always_prefixed(other_service, request) ==
    HTTP_PREFIX \o other_service \o PORT_SUFFIX \o get_full_path(request)

\* the URL the request is proxied to
TargetUrl(other_service, request) ==
    LET base == IF ~ StartsWith(other_service, HTTP_PREFIX)
                THEN HTTP_PREFIX \o other_service \o PORT_SUFFIX
                ELSE other_service
    IN  base \o get_full_path(request)

\* return view_func(request, *args, **kwargs)
CallView(request, r, result) ==
    [Idle EXCEPT !.pc = "done", !.request = request, !.r = r,
                 !.viewCalls = 1, !.viewArg = request, !.viewResult = result,
                 !.outcome = "response", !.response = result]

\* requests.get(url, timeout=15) has been issued
IssueGet(request, r, other_service) ==
    [Idle EXCEPT !.pc = "calling", !.request = request, !.r = r,
                 !.other_service = other_service,
                 !.url = TargetUrl(other_service, request),
                 !.getCalls = 1]

\* variant: another default
ContentTypeOf_octet(headers) ==
    IF "content-type" \in DOMAIN headers
    THEN headers["content-type"]
    ELSE "application/octet-stream"

\* other_response.headers['content-type'], "text/plain" on KeyError
ContentTypeOf(headers) ==
    IF "content-type" \in DOMAIN headers THEN headers["content-type"] ELSE "text/plain"

\* variant: no return after the proxied call, the view is called as well
RelayResponse_falls_through(rec, resp) ==
    [rec EXCEPT !.pc = "done", !.outcome = "response",
                !.viewCalls = 1, !.viewArg = rec.request,
                !.viewResult = [status |-> 200, content |-> "local",
                                content_type |-> "application/json"],
                !.response = [status |-> 200, content |-> "local",
                              content_type |-> "application/json"]]

\* return HttpResponse(other_response.content, status=..., content_type=...)
RelayResponse(rec, resp) ==
    [rec EXCEPT !.pc = "done", !.outcome = "response",
                !.response = [status |-> resp.status_code,
                              content |-> resp.content,
                              content_type |-> ContentTypeOf(resp.headers)]]

\* variant: the except clauses fall back to the view
PropagateFailure_fallback(rec, e) ==
    [rec EXCEPT !.pc = "done", !.outcome = "response",
                !.viewCalls = 1, !.viewArg = rec.request,
                !.viewResult = [status |-> 200, content |-> "local",
                                content_type |-> "application/json"],
                !.response = [status |-> 200, content |-> "local",
                              content_type |-> "application/json"]]

\* the except clauses: log and re-raise
PropagateFailure(rec, e) ==
    [rec EXCEPT !.pc = "done", !.outcome = "raise", !.exc = e]

\* ---------------------------------------------------------------- actions
maybe_dt ==
    /\ ~ wrapped
    /\ other_services' = ResolveServices(env_services)
    /\ probability' = ResolveProbability(env_probability)
    /\ wrapped' = TRUE
    /\ UNCHANGED <<env_services, env_probability, req, rumVars>>

\* a request for which the view is called
wrapped_view_local(w) ==
    /\ wrapped
    /\ req[w].pc = "idle"
    /\ \E request \in Requests, r \in Draws, result \in LocalResponses :
         /\ ~ ShouldForward(request.method, other_services, r, probability)
         /\ req' = [req EXCEPT ![w] = CallView(request, r, result)]
    /\ UNCHANGED <<env_services, env_probability, wrapped, other_services, probability,
                   rumVars>>

\* a request that is proxied, up to the call of requests.get
wrapped_view_forward(w) ==
    /\ wrapped
    /\ req[w].pc = "idle"
    /\ \E request \in Requests, r \in Draws :
         /\ ShouldForward(request.method, other_services, r, probability)
         /\ \E k \in 1..Len(other_services) :
              req' = [req EXCEPT ![w] = IssueGet(request, r, other_services[k])]
    /\ UNCHANGED <<env_services, env_probability, wrapped, other_services, probability,
                   rumVars>>

\* requests.get returns the other service's response
get_returns(w) ==
    /\ req[w].pc = "calling"
    /\ \E resp \in PeerResponses :
         req' = [req EXCEPT ![w] =
                    RelayResponse([req[w] EXCEPT !.other_response = resp], resp)]
    /\ UNCHANGED <<env_services, env_probability, wrapped, other_services, probability,
                   rumVars>>

\* requests.get raises
get_raises(w) ==
    /\ req[w].pc = "calling"
    /\ \E e \in Failures :
         req' = [req EXCEPT ![w] =
                    PropagateFailure([req[w] EXCEPT !.get_exc = e], e)]
    /\ UNCHANGED <<env_services, env_probability, wrapped, other_services, probability,
                   rumVars>>

\* the response or the exception has reached the caller; the worker is free again
finish(w) ==
    /\ req[w].pc = "done"
    /\ req' = [req EXCEPT ![w] = Idle]
    /\ UNCHANGED <<env_services, env_probability, wrapped, other_services, probability,
                   rumVars>>

\* ---------------------------------------------------------------- rum_agent_config
RumWorkers == 1..MaxRumRequests

K_URL == "elasticApmJsBaseServerUrl"
K_NAME == "elasticApmJsBaseServiceName"
K_VERSION == "elasticApmJsBaseServiceVersion"

EmptyDict == [k \in {} |-> ""]

\* d[k] = v
DictSet(d, k, v) == [x \in (DOMAIN d) \cup {k} |-> IF x = k THEN v ELSE d[x]]

\* a worker that is not inside rum_agent_config
RumIdle == [pc |-> "idle", outcome |-> "none", variables |-> EmptyDict]

\* if not RUM_CONFIG:
rum_check(t) ==
    /\ rum[t].pc = "idle"
    /\ rum' = [rum EXCEPT ![t].pc = IF DOMAIN RUM_CONFIG = {} THEN "url" ELSE "render"]
    /\ UNCHANGED <<dtVars, RUM_CONFIG>>

\* RUM_CONFIG['elasticApmJsBaseServerUrl'] = url
rum_set_url(t) ==
    /\ rum[t].pc = "url"
    /\ RUM_CONFIG' = DictSet(RUM_CONFIG, K_URL, "server_url")
    /\ rum' = [rum EXCEPT ![t].pc = "package"]
    /\ UNCHANGED dtVars

\* package.json is opened and parsed, name and version are read from it
rum_read_package(t) ==
    /\ rum[t].pc = "package"
    /\ rum' = [rum EXCEPT ![t].pc = "name"]
    /\ UNCHANGED <<dtVars, RUM_CONFIG>>

\* open, json.load or a lookup in package_json raises
rum_read_package_raises(t) ==
    /\ rum[t].pc = "package"
    /\ rum' = [rum EXCEPT ![t].pc = "done", ![t].outcome = "raise"]
    /\ UNCHANGED <<dtVars, RUM_CONFIG>>

\* RUM_CONFIG['elasticApmJsBaseServiceName'] = service_name
rum_set_name(t) ==
    /\ rum[t].pc = "name"
    /\ RUM_CONFIG' = DictSet(RUM_CONFIG, K_NAME, "service_name")
    /\ rum' = [rum EXCEPT ![t].pc = "version"]
    /\ UNCHANGED dtVars

\* RUM_CONFIG['elasticApmJsBaseServiceVersion'] = service_version
rum_set_version(t) ==
    /\ rum[t].pc = "version"
    /\ RUM_CONFIG' = DictSet(RUM_CONFIG, K_VERSION, "service_version")
    /\ rum' = [rum EXCEPT ![t].pc = "render"]
    /\ UNCHANGED dtVars

\* render_to_response('variables.js', context={'variables': RUM_CONFIG}, ...)
rum_render(t) ==
    /\ rum[t].pc = "render"
    /\ rum' = [rum EXCEPT ![t].pc = "done", ![t].outcome = "response",
                          ![t].variables = RUM_CONFIG]
    /\ UNCHANGED <<dtVars, RUM_CONFIG>>

\* the response or the exception has reached the caller; the worker is free again
rum_finish(t) ==
    /\ rum[t].pc = "done"
    /\ rum' = [rum EXCEPT ![t] = RumIdle]
    /\ UNCHANGED <<dtVars, RUM_CONFIG>>

\* ---------------------------------------------------------------- specifications
InitRest ==
    /\ wrapped = FALSE
    /\ other_services = <<>>
    /\ probability = 0
    /\ req = [w \in Workers |-> Idle]
    /\ RUM_CONFIG = EmptyDict
    /\ rum = [t \in RumWorkers |-> RumIdle]

\* the interceptor under the deployments' settings, MaxRequests workers
Init ==
    /\ env_services \in ServicesConfigs
    /\ env_probability \in ProbConfigs
    /\ InitRest

Next ==
    \/ maybe_dt
    \/ \E w \in Workers : wrapped_view_local(w)
    \/ \E w \in Workers : wrapped_view_forward(w)
    \/ \E w \in Workers : get_returns(w)
    \/ \E w \in Workers : get_raises(w)
    \/ \E w \in Workers : finish(w)

Spec == Init /\ [][Next]_vars

\* the set-up of maybe_dt under every enumerated setting, one worker
InitConfig ==
    /\ \/ env_services \in ServicesInputs /\ env_probability = Unset
       \/ env_services = SetTo(Join(<<S_a, S_b>>)) /\ env_probability \in ProbInputs
    /\ InitRest

NextConfig ==
    \/ maybe_dt
    \/ wrapped_view_local(1)
    \/ wrapped_view_forward(1)
    \/ get_returns(1)
    \/ get_raises(1)
    \/ finish(1)

SpecConfig == InitConfig /\ [][NextConfig]_vars

\* rum_agent_config, MaxRumRequests workers
InitRum ==
    /\ env_services = Unset
    /\ env_probability = Unset
    /\ InitRest

NextRum ==
    \/ \E t \in RumWorkers : rum_check(t)
    \/ \E t \in RumWorkers : rum_set_url(t)
    \/ \E t \in RumWorkers : rum_read_package(t)
    \/ \E t \in RumWorkers : rum_read_package_raises(t)
    \/ \E t \in RumWorkers : rum_set_name(t)
    \/ \E t \in RumWorkers : rum_set_version(t)
    \/ \E t \in RumWorkers : rum_render(t)
    \/ \E t \in RumWorkers : rum_finish(t)

SpecRum == InitRum /\ [][NextRum]_vars

\* ---------------------------------------------------------------- properties
\* text of the scenarios
URL_svc1_products ==
    <<"h","t","t","p",":","/","/","s","v","c","1",":","3","0","0","0",
      "/","a","p","i","/","p","r","o","d","u","c","t","s","?","x","=","1">>

Forwarded(q) == q.getCalls >= 1
Local(q) == q.viewCalls >= 1

\* C1: every request inside or through a maybe_dt view is either handled by
\* the view (called once, with the original request, its result returned
\* unchanged, no outbound GET) or proxied (one outbound GET, the view not
\* called); never both, never neither, never more than one outbound GET.
C1_LocalXorForward ==
    \A w \in Workers :
        LET q == req[w]
        IN  /\ q.getCalls <= 1
            /\ q.viewCalls <= 1
            /\ q.pc # "idle" =>
                 \/ /\ q.viewCalls = 1
                    /\ q.getCalls = 0
                    /\ q.viewArg = q.request
                    /\ q.pc = "done"
                    /\ q.outcome = "response"
                    /\ q.response = q.viewResult
                 \/ /\ q.viewCalls = 0
                    /\ q.getCalls = 1

C1_Witness ==
    \E w1, w2 \in Workers :
        /\ req[w1].pc = "done" /\ req[w1].viewCalls = 1
        /\ req[w2].pc = "done" /\ req[w2].getCalls = 1
        /\ req[w2].outcome = "response"

\* C2: when the outbound GET of a proxied request fails (timeout or any other
\* failure) the caller gets that exception: the view is not called, there is
\* no second outbound GET and no response is returned.
C2_FailureSurfaced ==
    \A w \in Workers :
        LET q == req[w]
        IN  q.get_exc # "" =>
              /\ q.pc = "done"
              /\ q.outcome = "raise"
              /\ q.exc = q.get_exc
              /\ q.viewCalls = 0
              /\ q.getCalls = 1
              /\ q.response = NoResponse

C2_Witness ==
    \E w1, w2 \in Workers :
        /\ req[w1].get_exc = "Timeout" /\ req[w1].outcome = "raise"
        /\ req[w2].get_exc = "ConnectionError" /\ req[w2].outcome = "raise"

\* C3: a request whose method is not GET, or one handled while other_services
\* is empty, is handled by the view with no outbound GET, whatever the
\* probability and the draw.
C3_NonGetOrNoPeersIsLocal ==
    \A w \in Workers :
        LET q == req[w]
        IN  (q.pc # "idle" /\ (q.request.method # "GET" \/ other_services = <<>>)) =>
              /\ q.viewCalls = 1
              /\ q.getCalls = 0
              /\ q.pc = "done"

C3_Witness ==
    \E w1, w2 \in Workers :
        /\ other_services = <<>> /\ probability = Scale
        /\ req[w1].pc = "done" /\ req[w1].request.method = "GET" /\ req[w1].r = 0
        /\ req[w1].viewCalls = 1
        /\ req[w2].pc = "done" /\ req[w2].request.method = "POST" /\ req[w2].r = 0
        /\ req[w2].viewCalls = 1

\* C4: with OPBEANS_SERVICES unset or empty, other_services is empty and no
\* request is proxied.
C4_NoPeersYieldsEmpty ==
    (wrapped /\ (~ env_services.set \/ env_services.val = <<>>)) =>
        /\ other_services = <<>>
        /\ ~ Forwarded(req[1])

\* C5: other_services holds, in their order, exactly the comma-separated
\* pieces of OPBEANS_SERVICES that do not contain "opbeans-python"
\* ("a,b,opbeans-python-local" gives <<"a", "b">>), and no request is proxied
\* to a service whose name contains it.
C5_LocalServiceExcluded ==
    wrapped =>
        LET text == IF env_services.set THEN env_services.val ELSE <<>>
            pieces == Split(text)
            keep == {i \in 1..Len(pieces) : ~ Contains(LOCAL_MARKER, pieces[i])}
        IN  /\ Join(pieces) = text
            /\ \A i \in 1..Len(pieces) : ~ Contains(<<",">>, pieces[i])
            /\ \A i \in 1..Len(other_services) : ~ Contains(LOCAL_MARKER, other_services[i])
            /\ Len(other_services) = Cardinality(keep)
            /\ \A i \in keep :
                 other_services[Cardinality({j \in keep : j <= i})] = pieces[i]
            /\ (env_services = SetTo(Join(<<S_a, S_b, S_local>>))
                  => other_services = <<S_a, S_b>>)
            /\ Forwarded(req[1]) =>
                 /\ ~ Contains(LOCAL_MARKER, req[1].other_service)
                 /\ ~ Contains(LOCAL_MARKER, req[1].url)

C5_Witness ==
    /\ wrapped
    /\ env_services = SetTo(Join(<<S_a, S_b, S_local>>))
    /\ other_services = <<S_a, S_b>>
    /\ Forwarded(req[1])
    /\ req[1].other_service = S_b

\* C6 as stated: for every chosen service the URL is http://<service>:3000
\* followed by the original full path.
C6_UrlAlwaysHostPort ==
    \A w \in Workers :
        LET q == req[w]
        IN  Forwarded(q) =>
              q.url = HTTP_PREFIX \o q.other_service \o PORT_SUFFIX
                        \o get_full_path(q.request)

\* C6 amended: for a chosen service that does not start with "http://" the URL
\* is http://<service>:3000 followed by the original full path (the path, then
\* "?" and the query string when there is one); a service that starts with
\* "http://" is used as it is, with no port added, followed by the full path.
C6_UrlByPrefix ==
    \A w \in Workers :
        LET q == req[w]
            full == IF q.request.query = <<>>
                    THEN q.request.path
                    ELSE q.request.path \o <<"?">> \o q.request.query
            hasScheme == /\ Len(q.other_service) >= Len(HTTP_PREFIX)
                         /\ \A i \in 1..Len(HTTP_PREFIX) : q.other_service[i] = HTTP_PREFIX[i]
        IN  Forwarded(q) =>
              /\ ~ hasScheme =>
                   q.url = HTTP_PREFIX \o q.other_service \o PORT_SUFFIX \o full
              /\ hasScheme =>
                   q.url = q.other_service \o full
              /\ (q.other_service = S_svc1 /\ q.request.path = P_products
                    /\ q.request.query = Q_x1) => q.url = URL_svc1_products

C6_Witness ==
    \E w1, w2 \in Workers :
        /\ Forwarded(req[w1]) /\ req[w1].other_service = S_http_svc1
        /\ req[w1].url = S_http_svc1 \o P_stats
        /\ Forwarded(req[w2]) /\ req[w2].other_service = S_svc1
        /\ req[w2].url = URL_svc1_products

\* C7: a GET request handled while other_services is not empty is proxied
\* exactly when its draw r is below the probability, and then to a member of
\* other_services; with probability 0.0 none is proxied, with 1.0 every one.
C7_ForwardIffDrawBelowProbability ==
    \A w \in Workers :
        LET q == req[w]
        IN  (q.pc # "idle" /\ q.request.method = "GET" /\ other_services # <<>>) =>
              /\ Forwarded(q) <=> q.r < probability
              /\ Local(q) <=> q.r >= probability
              /\ Forwarded(q) =>
                   \E k \in 1..Len(other_services) : other_services[k] = q.other_service
              /\ probability = 0 => ~ Forwarded(q)
              /\ probability = Scale => Forwarded(q)

C7_Witness ==
    \E w1, w2 \in Workers :
        /\ probability = Scale \div 2 /\ other_services = <<S_a, S_b>>
        /\ req[w1].request.method = "GET" /\ req[w1].r = Scale \div 2
        /\ Local(req[w1])
        /\ req[w2].request.method = "GET" /\ req[w2].r = 0
        /\ Forwarded(req[w2]) /\ req[w2].other_service = S_b

\* C8: when the outbound GET returns a response, whatever its status code, the
\* caller gets a response with that status code, that body and that
\* content-type; when the response has no content-type header the caller gets
\* content-type "text/plain", and still a response.
C8_ResponseRelayed ==
    \A w \in Workers :
        LET q == req[w]
        IN  q.other_response # NoPeerResponse =>
              /\ q.pc = "done"
              /\ q.outcome = "response"
              /\ q.response.status = q.other_response.status_code
              /\ q.response.content = q.other_response.content
              /\ \A h \in DOMAIN q.other_response.headers :
                   q.response.content_type = q.other_response.headers[h]
              /\ DOMAIN q.other_response.headers = {} =>
                   q.response.content_type = "text/plain"

C8_Witness ==
    \E w1, w2 \in Workers :
        /\ req[w1].other_response.status_code = 503
        /\ req[w1].other_response.headers = NoHeaders
        /\ req[w1].response =
             [status |-> 503, content |-> "down", content_type |-> "text/plain"]
        /\ req[w2].other_response.status_code = 404
        /\ req[w2].response =
             [status |-> 404, content |-> "", content_type |-> "text/html"]

\* the text of a number: an optional "-", digits, at most one ".", at least
\* one digit
IsNumberText(s) ==
    LET first == IF Len(s) > 0 /\ s[1] = "-" THEN 2 ELSE 1
        body == first..Len(s)
    IN  /\ \A i \in body : s[i] \in Digits \cup {"."}
        /\ Cardinality({i \in body : s[i] = "."}) <= 1
        /\ \E i \in body : s[i] \in Digits

\* its value in units of 1/Scale: the sum of its digits, each at its place
RECURSIVE PlaceSum(_, _, _)
PlaceSum(s, dotAt, i) ==
    IF i > Len(s) THEN 0
    ELSE PlaceSum(s, dotAt, i + 1)
         + (IF s[i] \notin Digits THEN 0
            ELSE IF i < dotAt THEN DigitVal(s[i]) * Scale * Pow10(dotAt - 1 - i)
            ELSE DigitVal(s[i]) * (Scale \div Pow10(i - dotAt)))

NumberValue(s) ==
    LET dots == {i \in 1..Len(s) : s[i] = "."}
        dotAt == IF dots = {} THEN Len(s) + 1 ELSE CHOOSE i \in dots : TRUE
    IN  (IF s[1] = "-" THEN -1 ELSE 1) * PlaceSum(s, dotAt, 1)

\* C9: the probability every decision uses is the value of
\* OPBEANS_DT_PROBABILITY when that is the text of a number, and 0.5 when it
\* is unset or is not; a malformed value does not keep maybe_dt from wrapping
\* the view.  The probability is set when the view is wrapped and no request
\* changes it.
C9_ProbabilityConfiguredOrDefault ==
    /\ [](wrapped =>
            probability =
              IF env_probability.set /\ IsNumberText(env_probability.val)
              THEN NumberValue(env_probability.val)
              ELSE 5 * (Scale \div 10))
    /\ [][wrapped => (wrapped' /\ probability' = probability)]_vars

C9_Witness ==
    /\ wrapped
    /\ env_probability = SetTo(<<"1", ".", "x">>)
    /\ probability = 5 * (Scale \div 10)
    /\ req[1].pc = "done"
    /\ req[1].r = 0
    /\ Forwarded(req[1])
    /\ req[1].outcome = "response"

\* C10: every response of rum_agent_config is rendered from a RUM_CONFIG that
\* has all three keys, under every interleaving of requests and also after a
\* request that failed while reading package.json.
C10_RenderedConfigComplete ==
    \A t \in RumWorkers :
        rum[t].outcome = "response" =>
            DOMAIN rum[t].variables = {K_URL, K_NAME, K_VERSION}

====
